---------------------------- MODULE Spec2Model ----------------------------
(***************************************************************************)
(* Model of the bird search backend (src/backend/main.py): the three       *)
(* in-memory caches ALL_TEXT_DATA / ALL_IMAGE_DATA / ALL_AUDIO_DATA, their  *)
(* loaders, the refresh handler, and the request handlers that join search *)
(* hits against the caches.                                                *)
(*                                                                         *)
(* Representation of Python values:                                        *)
(*   str        a sequence of one-character strings ("" is << >>)          *)
(*   payload    a record whose DOMAIN is the set of keys that are present  *)
(*   dict       an insertion-ordered sequence of entries [k, v] with       *)
(*              pairwise distinct keys                                     *)
(*   None       NoneId for a bird_id, None for a dict-or-None value        *)
(***************************************************************************)
EXTENDS Integers, Sequences, FiniteSets, TLC

VARIABLES
    store,      \* the vector store: collection -> records in scroll order
    cache,      \* [text |-> ALL_TEXT_DATA, image |-> ALL_IMAGE_DATA, audio |-> ALL_AUDIO_DATA]
    pc,         \* what the serving thread (import, then the event loop) executes
    suspended,  \* upload handlers suspended at `await file.read()`
    query,      \* history: the raw hits and the limit of the search that finished last
    resp,       \* the response of the handler that finished last
    readGens,   \* history: the load numbers of the mappings that response was built from
    gen,        \* history: number of the load that wrote each mapping
    load,       \* history: per mapping, how its last load went
    snapshot,   \* history: the mappings as they were when the running refresh began
    nRefresh,   \* refresh calls begun so far
    nWrites,    \* writes to the store so far
    nRequests,  \* search and detail requests taken up so far
    tmp_files,  \* the temporary upload files that exist on disk
    scrape      \* the image scraper: its call in progress and what it returned

vars ==
    <<store, cache, pc, suspended, query, resp, readGens, gen, load, snapshot, nRefresh,
      nWrites, nRequests, tmp_files, scrape>>

---------------------------------------------------------------------------
(* Bounds of the model *)

MaxId == 1          \* entity ids are 0..MaxId
MaxRecords == 2     \* records in the store, all collections together
MaxRefresh == 2     \* refresh calls in one run
MaxWrites == 1      \* writes to the store in one run
MaxHits == 3        \* raw hits one search returns
MaxPathLen == 5     \* characters of a stored clip path
MaxStoreCalls == 2  \* store calls of one loader whose outcome the environment decides
MaxScore == 2       \* similarity scores are 1..MaxScore
MaxLimit == 2       \* the limit parameter of a search is -1..MaxLimit
MaxSuspended == 1   \* upload handlers suspended at the same time
MaxRequests == 1    \* search and detail requests in one run
MaxServingRecords == 1  \* records in the store while refreshes and requests interleave
MaxServingRefresh == 1  \* refresh calls while refreshes and requests interleave
MaxLead == 9        \* search results of passing score ahead of the others
MaxTail == 2        \* search results of any kind behind them
MaxImages == 3      \* max_images of collect_species_images is 0..MaxImages
MaxBeyondPage == 1      \* records a collection holds beyond the first page of its scroll
MaxServingHits == 1     \* raw hits of a search while refreshes and requests interleave

IDs == 0..MaxId
Modalities == {"text", "image", "audio"}

---------------------------------------------------------------------------
(* Python values *)

NoneId == -1
None == [py_none |-> TRUE]
EmptyPayload == [k \in {} |-> 0]
EmptyStr == << >>
EmptyDict == << >>

Letters == <<"a", "b", "c", "d", "e">>
Letter(i) == Letters[(i % Len(Letters)) + 1]

Last(s) == s[Len(s)]

Min(a, b) == IF a < b THEN a ELSE b

\* payload.get(key) for the bird_id key: None when the key is missing
GetId(payload) == IF "bird_id" \in DOMAIN payload THEN payload.bird_id ELSE NoneId

\* payload.get(key, default) for a str-valued key
GetStr(payload, key, default) == IF key \in DOMAIN payload THEN payload[key] ELSE default

\* truth value of payload.get(key) for a str-valued key: None and "" are false
HasTruthy(payload, key) == key \in DOMAIN payload /\ payload[key] /= EmptyStr

\* d.get(key, default)
DictHas(d, key) == \E i \in 1..Len(d) : d[i].k = key
DictGet(d, key, default) ==
    IF DictHas(d, key) THEN d[CHOOSE i \in 1..Len(d) : d[i].k = key].v ELSE default

\* d[key] = value: a present key keeps its place, a new key goes last
DictPut(d, key, value) ==
    IF DictHas(d, key)
    THEN [i \in 1..Len(d) |-> IF d[i].k = key THEN [k |-> key, v |-> value] ELSE d[i]]
    ELSE Append(d, [k |-> key, v |-> value])

DictKeys(d) == {d[i].k : i \in 1..Len(d)}

\* str.split(sep): the segments between the occurrences of sep, at least one
RECURSIVE Split(_, _)
Split(s, sep) ==
    IF \A i \in 1..Len(s) : s[i] /= sep
    THEN <<s>>
    ELSE LET i == CHOOSE j \in 1..Len(s) : s[j] = sep /\ \A h \in 1..(j - 1) : s[h] /= sep
         IN  <<SubSeq(s, 1, i - 1)>> \o Split(SubSeq(s, i + 1, Len(s)), sep)

\* str.replace(old, new) for one-character old and new
Replace(s, old, new) == [i \in 1..Len(s) |-> IF s[i] = old THEN new ELSE s[i]]

---------------------------------------------------------------------------
(* The records the store can hold *)

Name(i) == <<"S", " ", Letter(i)>>

TextRecord(i) ==
    [bird_id |-> i, species_name |-> Name(i), scientific_name |-> <<"L", Letter(i)>>,
     family |-> <<"F">>, searchable_text |-> <<"T", Letter(i)>>, size |-> <<"9">>]

ImageRecord(i, n, q) ==
    [bird_id |-> i, species_name |-> Name(i), source_url |-> <<"u", Letter(n)>>,
     image_number |-> n, quality_score |-> q]

AudioRecord(i, path) == [bird_id |-> i, species_name |-> Name(i), clip_path |-> path]

\* full records, a second record of id 0 that has the id only, a record without id
TextPool ==
    {TextRecord(i) : i \in IDs} \cup {[bird_id |-> 0], [species_name |-> Name(0)]}

\* the second image of id 0 has the higher quality score
ImagePool ==
    {ImageRecord(i, 1, 3) : i \in IDs} \cup {ImageRecord(0, 2, 5), [source_url |-> <<"u">>]}

AudioPool ==
    {AudioRecord(i, <<"d", "/", Letter(i)>>) : i \in IDs}
        \cup {AudioRecord(0, <<"C", "\\", "x">>), [bird_id |-> 1], [clip_path |-> <<"y">>]}

Pool(m) == CASE m = "text" -> TextPool [] m = "image" -> ImagePool [] OTHER -> AudioPool

SeqsUpTo(S, n) == UNION {[1..k -> S] : k \in 0..n}

TotalRecords(st) == Len(st.text) + Len(st.image) + Len(st.audio)

\* every clip path of at most MaxPathLen characters, both separators among them
PathChars == {"a", ".", "/", "\\"}
Paths == SeqsUpTo(PathChars, MaxPathLen)

\* the stores that hold one audio record, of any clip path
PathStores ==
    {[text |-> << >>, image |-> << >>, audio |-> <<AudioRecord(0, path)>>] : path \in Paths}

\* every content of the store with at most n records
Stores(n) ==
    {st \in [text : SeqsUpTo(TextPool, n), image : SeqsUpTo(ImagePool, n),
             audio : SeqsUpTo(AudioPool, n)] : TotalRecords(st) <= n}

---------------------------------------------------------------------------
(* The store client and the cache loaders *)

TEXT_SCROLL_LIMIT == 100
IMAGE_SCROLL_LIMIT == 1000
AUDIO_SCROLL_LIMIT == 1000

AUDIO_BASE_URL == <<"http://localhost:8000/audio/">>

\* a variant that follows the offset of every page to the end of the collection
ScrollAllPages(collection, limit, up) ==
    IF up
    THEN [raised |-> FALSE, points |-> store[collection]]
    ELSE [raised |-> TRUE, points |-> << >>]

\* the clip path of the i-th clip: a directory and a name that spells i in letters
ClipPath(i) ==
    <<"d", "/", Letter(i), Letter(i \div 5), Letter(i \div 25), Letter(i \div 125),
      Letter(i \div 625)>>

(* Collections as large as one page of the scroll of their loader, and larger:  *)
(* text records of ids 1, 2, ..., image records and audio records of two birds, *)
(* all records of a collection different.                                      *)
PageStores ==
    {[text |-> [i \in 1..(TEXT_SCROLL_LIMIT + extra) |-> TextRecord(i)],
      image |-> << >>, audio |-> << >>] : extra \in 0..MaxBeyondPage}
    \cup {[text |-> << >>,
           image |-> [i \in 1..(IMAGE_SCROLL_LIMIT + extra) |-> ImageRecord(i % 2, i, 3)],
           audio |-> << >>] : extra \in 0..MaxBeyondPage}
    \cup {[text |-> << >>, image |-> << >>,
           audio |-> [i \in 1..(AUDIO_SCROLL_LIMIT + extra) |->
                        AudioRecord(i % 2, ClipPath(i))]] : extra \in 0..MaxBeyondPage}

\* qdrant_client.scroll(collection, limit): the first page of the collection, or
\* an exception when the store cannot be reached (up = FALSE)
Scroll(collection, limit, up) ==
    IF up
    THEN [raised |-> FALSE,
          points |-> SubSeq(store[collection], 1, Min(limit, Len(store[collection])))]
    ELSE [raised |-> TRUE, points |-> << >>]

\* a variant in which the first record of an id stays
RECURSIVE TextDictFirstWins(_)
TextDictFirstWins(points) ==
    IF Len(points) = 0
    THEN EmptyDict
    ELSE LET payload == Last(points)
             text_data == TextDictFirstWins(SubSeq(points, 1, Len(points) - 1))
         IN  IF DictHas(text_data, GetId(payload))
             THEN text_data
             ELSE DictPut(text_data, GetId(payload), payload)

\* the comprehension of get_all_text_data over the points, from text_data on,
\* half by half
RECURSIVE TextFold(_, _)
TextFold(text_data, points) ==
    IF Len(points) = 0
    THEN text_data
    ELSE IF Len(points) = 1
    THEN DictPut(text_data, GetId(points[1]), points[1])
    ELSE LET half == Len(points) \div 2
             first == TextFold(text_data, SubSeq(points, 1, half))
         IN  IF first = EmptyDict
             THEN TextFold(EmptyDict, SubSeq(points, half + 1, Len(points)))
             ELSE TextFold(first, SubSeq(points, half + 1, Len(points)))

\* {point.payload.get("bird_id"): point.payload for point in results[0]}
TextDict(points) == TextFold(EmptyDict, points)

\* a variant that puts a record in front of the records of its id
RECURSIVE ImageDictPrepending(_)
ImageDictPrepending(points) ==
    IF Len(points) = 0
    THEN EmptyDict
    ELSE LET payload == Last(points)
             image_data == ImageDictPrepending(SubSeq(points, 1, Len(points) - 1))
             bird_id == GetId(payload)
         IN  DictPut(image_data, bird_id, <<payload>> \o DictGet(image_data, bird_id, << >>))

\* a variant that keeps the latest record of an id instead of a list of them
RECURSIVE ImageDictOverwriting(_)
ImageDictOverwriting(points) ==
    IF Len(points) = 0
    THEN EmptyDict
    ELSE LET payload == Last(points)
         IN  DictPut(ImageDictOverwriting(SubSeq(points, 1, Len(points) - 1)),
                     GetId(payload), <<payload>>)

\* one iteration of the loop of get_all_image_data
ImageStep(image_data, payload) ==
    LET bird_id == GetId(payload)
    IN  DictPut(image_data, bird_id, Append(DictGet(image_data, bird_id, << >>), payload))

(* The loop of get_all_image_data over the points, from image_data on. The     *)
(* points are gone through in order, half by half, and the first half is       *)
(* evaluated before the second is entered (the case split on it has the same   *)
(* value in both cases): this keeps the nesting of the evaluation small for a  *)
(* page of 1000 points.                                                        *)
RECURSIVE ImageFold(_, _)
ImageFold(image_data, points) ==
    IF Len(points) = 0
    THEN image_data
    ELSE IF Len(points) = 1
    THEN ImageStep(image_data, points[1])
    ELSE LET half == Len(points) \div 2
             first == ImageFold(image_data, SubSeq(points, 1, half))
         IN  IF first = EmptyDict
             THEN ImageFold(EmptyDict, SubSeq(points, half + 1, Len(points)))
             ELSE ImageFold(first, SubSeq(points, half + 1, Len(points)))

\* image_data = {} and the loop of get_all_image_data
ImageDict(points) == ImageFold(EmptyDict, points)

\* a variant that splits at forward slashes only
FileNameAfterSlash(clip_path) == Last(Split(clip_path, "/"))

\* payload["clip_path"].split("\\")[-1].split("/")[-1]
FileName(clip_path) == Last(Split(Last(Split(clip_path, "\\")), "/"))

\* payload.copy() with audio_url added when there is a clip path
WithAudioUrl(payload) ==
    IF HasTruthy(payload, "clip_path")
    THEN [key \in DOMAIN payload \cup {"audio_url"} |->
            IF key = "audio_url"
            THEN AUDIO_BASE_URL \o FileName(payload.clip_path)
            ELSE payload[key]]
    ELSE payload

\* one iteration of the loop of get_all_audio_data
AudioStep(audio_data, payload) ==
    LET bird_id == GetId(payload)
    IN  DictPut(audio_data, bird_id,
                Append(DictGet(audio_data, bird_id, << >>), WithAudioUrl(payload)))

\* the loop of get_all_audio_data over the points, from audio_data on, half by half
RECURSIVE AudioFold(_, _)
AudioFold(audio_data, points) ==
    IF Len(points) = 0
    THEN audio_data
    ELSE IF Len(points) = 1
    THEN AudioStep(audio_data, points[1])
    ELSE LET half == Len(points) \div 2
             first == AudioFold(audio_data, SubSeq(points, 1, half))
         IN  IF first = EmptyDict
             THEN AudioFold(EmptyDict, SubSeq(points, half + 1, Len(points)))
             ELSE AudioFold(first, SubSeq(points, half + 1, Len(points)))

\* audio_data = {} and the loop of get_all_audio_data
AudioDict(points) == AudioFold(EmptyDict, points)

\* a variant that updates the mapping loaded before with the scrolled records
RECURSIVE TextDictOnto(_, _)
TextDictOnto(base, points) ==
    IF Len(points) = 0
    THEN base
    ELSE LET payload == Last(points)
         IN  DictPut(TextDictOnto(base, SubSeq(points, 1, Len(points) - 1)),
                     GetId(payload), payload)

get_all_text_data_updating(up) ==
    LET results == Scroll("text", TEXT_SCROLL_LIMIT, up[1])
    IN  IF results.raised
        THEN [value |-> EmptyDict, raised |-> FALSE, calls |-> 1]
        ELSE [value |-> TextDictOnto(cache.text, results.points), raised |-> FALSE,
              calls |-> 1]

(* A loader is given the availability of the store at its successive store    *)
(* calls and answers [value, raised, calls]: the mapping it returns, whether  *)
(* it raised instead, and the store calls it made.                            *)
get_all_text_data(up) ==
    LET results == Scroll("text", TEXT_SCROLL_LIMIT, up[1])
    IN  IF results.raised
        THEN [value |-> EmptyDict, raised |-> FALSE, calls |-> 1]
        ELSE [value |-> TextDict(results.points), raised |-> FALSE, calls |-> 1]

\* a variant that lets the exception of the store call through
get_all_image_data_raising(up) ==
    LET results == Scroll("image", IMAGE_SCROLL_LIMIT, up[1])
    IN  IF results.raised
        THEN [value |-> EmptyDict, raised |-> TRUE, calls |-> 1]
        ELSE [value |-> ImageDict(results.points), raised |-> FALSE, calls |-> 1]

\* a variant that answers the mapping loaded before when the store call fails
get_all_image_data_keeping(up) ==
    LET results == Scroll("image", IMAGE_SCROLL_LIMIT, up[1])
    IN  IF results.raised
        THEN [value |-> cache.image, raised |-> FALSE, calls |-> 1]
        ELSE [value |-> ImageDict(results.points), raised |-> FALSE, calls |-> 1]

\* a variant that adds the scrolled records to the mapping loaded before
RECURSIVE ImageDictOnto(_, _)
ImageDictOnto(base, points) ==
    IF Len(points) = 0
    THEN base
    ELSE LET payload == Last(points)
             image_data == ImageDictOnto(base, SubSeq(points, 1, Len(points) - 1))
             bird_id == GetId(payload)
         IN  DictPut(image_data, bird_id, Append(DictGet(image_data, bird_id, << >>), payload))

get_all_image_data_merging(up) ==
    LET results == Scroll("image", IMAGE_SCROLL_LIMIT, up[1])
    IN  IF results.raised
        THEN [value |-> EmptyDict, raised |-> FALSE, calls |-> 1]
        ELSE [value |-> ImageDictOnto(cache.image, results.points), raised |-> FALSE,
              calls |-> 1]

get_all_image_data(up) ==
    LET results == Scroll("image", IMAGE_SCROLL_LIMIT, up[1])
    IN  IF results.raised
        THEN [value |-> EmptyDict, raised |-> FALSE, calls |-> 1]
        ELSE [value |-> ImageDict(results.points), raised |-> FALSE, calls |-> 1]

get_all_audio_data(up) ==
    LET results == Scroll("audio", AUDIO_SCROLL_LIMIT, up[1])
    IN  IF results.raised
        THEN [value |-> EmptyDict, raised |-> FALSE, calls |-> 1]
        ELSE [value |-> AudioDict(results.points), raised |-> FALSE, calls |-> 1]

Loader(m, up) ==
    CASE m = "text" -> get_all_text_data(up)
      [] m = "image" -> get_all_image_data(up)
      [] OTHER -> get_all_audio_data(up)

---------------------------------------------------------------------------
(* Startup load and refresh *)

NoSnapshot == [m \in Modalities |-> EmptyDict]
NoLoad == [failed |-> FALSE, calls |-> 0, dirty |-> FALSE, prevFailed |-> FALSE, unchanged |-> FALSE]
NoResp == [kind |-> "none"]
NoQuery == [limit |-> 0, results |-> << >>, began |-> 0]

\* a variant of refresh_cache that awaits between its three loads
RefreshAwaitsBetweenLoads == {"r_image", "r_audio"}

\* the places of the refresh handler at which it is suspended (it has no await)
RefreshAwaits == {}

\* the event loop can run another handler
LoopFree == pc = "idle" \/ pc \in RefreshAwaits

\* the image scraper is a program of its own: it does not run in the API process
NoScrape == [phase |-> "none"]

InitWith(stores) ==
    /\ store \in stores
    /\ cache = [m \in Modalities |-> EmptyDict]
    /\ pc = "boot_text"
    /\ suspended = << >>
    /\ query = NoQuery
    /\ resp = NoResp
    /\ readGens = {}
    /\ gen = [m \in Modalities |-> 0]
    /\ load = [m \in Modalities |-> NoLoad]
    /\ snapshot = NoSnapshot
    /\ nRefresh = 0
    /\ nWrites = 0
    /\ nRequests = 0
    /\ tmp_files = {}
    /\ scrape = NoScrape

(* One assignment ALL_..._DATA = get_all_..._data(), at import (bootPc) or in   *)
(* refresh_cache (refreshPc). An exception leaving the loader would end the    *)
(* import, or the refresh request with status 500.                            *)
LoadStep(m, bootPc, bootNext, refreshPc, refreshNext) ==
    /\ pc \in {bootPc, refreshPc}
    /\ \E up \in [1..MaxStoreCalls -> BOOLEAN] :
        LET r == Loader(m, up)
            booting == pc = bootPc
        IN  IF r.raised
            THEN /\ pc' = IF booting THEN "crashed" ELSE "idle"
                 /\ resp' = IF booting THEN resp ELSE [kind |-> "refresh", status |-> 500]
                 /\ snapshot' = NoSnapshot
                 /\ load' = [load EXCEPT ![m] = [failed |-> ~up[1], calls |-> r.calls,
                                                 dirty |-> FALSE, prevFailed |-> FALSE,
                                                 unchanged |-> FALSE]]
                 /\ UNCHANGED <<cache, gen>>
            ELSE /\ cache' = [cache EXCEPT ![m] = r.value]
                 /\ gen' = [gen EXCEPT ![m] = nRefresh]
                 /\ load' = [load EXCEPT ![m] =
                               [failed |-> ~up[1], calls |-> r.calls, dirty |-> FALSE,
                                prevFailed |-> IF booting THEN FALSE ELSE load[m].failed,
                                unchanged |-> IF booting THEN FALSE ELSE ~load[m].dirty]]
                 /\ pc' = IF booting THEN bootNext ELSE refreshNext
                 /\ UNCHANGED <<resp, snapshot>>
    /\ UNCHANGED <<store, suspended, query, readGens, nRefresh, nWrites, nRequests,
                   tmp_files, scrape>>

LoadText == LoadStep("text", "boot_text", "boot_image", "r_text", "r_image")

LoadImage == LoadStep("image", "boot_image", "boot_audio", "r_image", "r_audio")

LoadAudio == LoadStep("audio", "boot_audio", "idle", "r_audio", "r_ret")

\* GET /refresh-cache is taken up by the event loop
RefreshBegin(maxRefresh) ==
    /\ pc = "idle"
    /\ nRefresh < maxRefresh
    /\ pc' = "r_text"
    /\ nRefresh' = nRefresh + 1
    /\ snapshot' = cache
    /\ UNCHANGED <<store, cache, suspended, query, resp, readGens, gen, load, nWrites, nRequests,
                   tmp_files, scrape>>

\* refresh_cache returns the counts
RefreshReturn ==
    /\ pc = "r_ret"
    /\ pc' = "idle"
    /\ resp' = [kind |-> "refresh", status |-> 200,
                body |-> [message |-> "Cache refreshed",
                          counts |-> [text |-> Len(cache.text), images |-> Len(cache.image),
                                      audio |-> Len(cache.audio)]]]
    /\ snapshot' = NoSnapshot
    /\ load' = [m \in Modalities |-> [load[m] EXCEPT !.prevFailed = FALSE, !.unchanged = FALSE]]
    /\ UNCHANGED <<store, cache, suspended, query, readGens, gen, nRefresh, nWrites, nRequests,
                   tmp_files, scrape>>

\* another client of the vector store replaces the records of one collection
StoreWrite(maxRecords) ==
    /\ nWrites < MaxWrites
    /\ \E m \in Modalities :
        \E records \in SeqsUpTo(Pool(m), maxRecords) :
            /\ records /= store[m]
            /\ TotalRecords([store EXCEPT ![m] = records]) <= maxRecords
            /\ store' = [store EXCEPT ![m] = records]
            /\ load' = [load EXCEPT ![m].dirty = TRUE]
    /\ nWrites' = nWrites + 1
    /\ UNCHANGED <<cache, pc, suspended, query, resp, readGens, gen, snapshot, nRefresh, nRequests,
                   tmp_files, scrape>>

---------------------------------------------------------------------------
(* The result joiner *)

WIKI_BASE_URL == <<"https://en.wikipedia.org/wiki/">>
UNKNOWN == <<"U", "n", "k", "n", "o", "w", "n">>

ALL_TEXT_DATA == cache.text
ALL_IMAGE_DATA == cache.image
ALL_AUDIO_DATA == cache.audio

\* f"https://en.wikipedia.org/wiki/{...replace(' ', '_')}" if text_info.get("species_name") else ""
WikiUrl(text_info) ==
    IF HasTruthy(text_info, "species_name")
    THEN WIKI_BASE_URL \o Replace(text_info.species_name, " ", "_")
    ELSE EmptyStr

\* a variant that takes the last element
LastOrNone(seq) == IF Len(seq) > 0 THEN seq[Len(seq)] ELSE None

\* seq[0] if seq else None
FirstOrNone(seq) == IF Len(seq) > 0 THEN seq[1] ELSE None

\* a variant that tests `not bird_id`
IdIsFalsy(bird_id) == bird_id = NoneId \/ bird_id = 0

\* a variant that also gives up when the text cache has no record of the id
IdIsMissingOrUncached(bird_id) == bird_id = NoneId \/ ~DictHas(cache.text, bird_id)

\* `bird_id is None` in create_comprehensive_result
IdIsMissing(bird_id) == bird_id = NoneId

\* a variant that tags every result as a text match
create_comprehensive_result_tagged_text(search_result, search_type) ==
    LET bird_id == GetId(search_result.payload)
        text_info == DictGet(ALL_TEXT_DATA, bird_id, EmptyPayload)
        images == DictGet(ALL_IMAGE_DATA, bird_id, << >>)
        audio_clips == DictGet(ALL_AUDIO_DATA, bird_id, << >>)
    IN  IF bird_id = NoneId
        THEN None
        ELSE [bird_id |-> bird_id,
              species_name |-> IF HasTruthy(search_result.payload, "species_name")
                               THEN search_result.payload.species_name
                               ELSE GetStr(text_info, "species_name", UNKNOWN),
              scientific_name |-> GetStr(text_info, "scientific_name", EmptyStr),
              family |-> GetStr(text_info, "family", EmptyStr),
              confidence_score |-> search_result.score,
              search_match_type |-> "text",
              text_description |-> GetStr(text_info, "searchable_text", EmptyStr),
              raw_text_data |-> text_info,
              habitats |-> EmptyStr,
              geographic_regions |-> EmptyStr,
              size |-> GetStr(text_info, "size", EmptyStr),
              ecology |-> EmptyStr,
              group_dynamics |-> EmptyStr,
              extract |-> EmptyStr,
              url |-> WikiUrl(text_info),
              images |-> images,
              primary_image |-> IF Len(images) > 0 THEN images[1] ELSE None,
              audio_clips |-> audio_clips,
              primary_audio |-> IF Len(audio_clips) > 0 THEN audio_clips[1] ELSE None]

create_comprehensive_result(search_result, search_type) ==
    LET bird_id == GetId(search_result.payload)
        text_info == DictGet(ALL_TEXT_DATA, bird_id, EmptyPayload)
        images == DictGet(ALL_IMAGE_DATA, bird_id, << >>)
        audio_clips == DictGet(ALL_AUDIO_DATA, bird_id, << >>)
    IN  IF IdIsMissing(bird_id)
        THEN None
        ELSE [bird_id |-> bird_id,
              species_name |-> IF HasTruthy(search_result.payload, "species_name")
                               THEN search_result.payload.species_name
                               ELSE GetStr(text_info, "species_name", UNKNOWN),
              scientific_name |-> GetStr(text_info, "scientific_name", EmptyStr),
              family |-> GetStr(text_info, "family", EmptyStr),
              confidence_score |-> search_result.score,
              search_match_type |-> search_type,
              text_description |-> GetStr(text_info, "searchable_text", EmptyStr),
              raw_text_data |-> text_info,
              habitats |-> EmptyStr,
              geographic_regions |-> EmptyStr,
              size |-> GetStr(text_info, "size", EmptyStr),
              ecology |-> EmptyStr,
              group_dynamics |-> EmptyStr,
              extract |-> EmptyStr,
              url |-> WikiUrl(text_info),
              images |-> images,
              primary_image |-> FirstOrNone(images),
              audio_clips |-> audio_clips,
              primary_audio |-> FirstOrNone(audio_clips)]

\* `if comprehensive_result:`: None is false, a result (a non-empty dict) is true
Truthy(result) == result /= None

\* a variant that ends the loop at the first hit without result
JoinUntilNull(results, search_type) ==
    LET joined == [i \in 1..Len(results) |->
                      create_comprehensive_result(results[i], search_type)]
        nulls == {i \in 1..Len(joined) : joined[i] = None}
    IN  IF nulls = {}
        THEN joined
        ELSE SubSeq(joined, 1, (CHOOSE i \in nulls : \A j \in nulls : i <= j) - 1)

\* the loop of search_by_text: join every hit, keep the true results
JoinEach(results, search_type) ==
    SelectSeq([i \in 1..Len(results) |-> create_comprehensive_result(results[i], search_type)],
              Truthy)

\* a variant that keeps, per entity, the hit with the best score
UniqueStepBestScore(acc, result, search_type) ==
    LET bird_id == GetId(result.payload)
        comprehensive_result == create_comprehensive_result(result, search_type)
        old == acc.unique_results
    IN  IF bird_id = NoneId
        THEN acc
        ELSE IF bird_id \notin acc.seen_bird_ids
        THEN [seen_bird_ids |-> acc.seen_bird_ids \cup {bird_id},
              unique_results |-> Append(old, comprehensive_result)]
        ELSE [seen_bird_ids |-> acc.seen_bird_ids,
              unique_results |->
                 [i \in 1..Len(old) |->
                    IF old[i].bird_id = bird_id /\ old[i].confidence_score < result.score
                    THEN comprehensive_result
                    ELSE old[i]]]

\* one iteration of the loop of get_unique_birds_from_results
UniqueStep(acc, result, search_type) ==
    LET bird_id == GetId(result.payload)
    IN  IF bird_id /= NoneId /\ bird_id \notin acc.seen_bird_ids
        THEN LET comprehensive_result == create_comprehensive_result(result, search_type)
             IN  [seen_bird_ids |-> acc.seen_bird_ids \cup {bird_id},
                  unique_results |-> IF Truthy(comprehensive_result)
                                     THEN Append(acc.unique_results, comprehensive_result)
                                     ELSE acc.unique_results]
        ELSE acc

RECURSIVE UniqueFold(_, _)
UniqueFold(results, search_type) ==
    IF Len(results) = 0
    THEN [seen_bird_ids |-> {}, unique_results |-> << >>]
    ELSE UniqueStep(UniqueFold(SubSeq(results, 1, Len(results) - 1), search_type),
                    Last(results), search_type)

get_unique_birds_from_results(results, search_type) ==
    UniqueFold(results, search_type).unique_results

\* a variant that cuts nothing off
NoSlice(seq, n) == seq

\* seq[:n]
SliceTo(seq, n) ==
    IF n >= 0
    THEN SubSeq(seq, 1, Min(n, Len(seq)))
    ELSE SubSeq(seq, 1, IF Len(seq) + n > 0 THEN Len(seq) + n ELSE 0)

---------------------------------------------------------------------------
(* Request handlers *)

Scores == 1..MaxScore
Limits == (-1)..MaxLimit

\* three text records, two image records of id 1, and image hits of ids 1, 2, 3
ScenarioStore ==
    [text |-> <<TextRecord(1), TextRecord(2), TextRecord(3)>>,
     image |-> <<ImageRecord(1, 1, 3), ImageRecord(1, 2, 5)>>,
     audio |-> << >>]
ScenarioHitPool ==
    [payload : {ImageRecord(1, 1, 3), ImageRecord(1, 2, 5), ImageRecord(2, 1, 3),
                ImageRecord(3, 1, 3)},
     score : Scores]

\* the hits a similarity search of a collection can return
HitPool(m) == [payload : Pool(m), score : Scores]

\* qdrant_client.search(collection, limit): at most limit hits, of the given ones
SearchResultsFrom(pool, limit, maxHits) ==
    {hits \in SeqsUpTo(pool, maxHits) : Len(hits) <= limit}

SearchResults(m, limit, maxHits) == SearchResultsFrom(HitPool(m), limit, maxHits)

CurrentGens == {gen[m] : m \in Modalities}

SearchResponse(results, search_type) ==
    [kind |-> search_type, status |-> 200,
     body |-> [results |-> results, total_found |-> Len(results), search_type |-> search_type]]

\* an exception that left the handler's try block
HttpException(status) == [type |-> "HTTPException", status |-> status]
OtherException == [type |-> "Exception", status |-> 0]

\* a variant that catches nothing: the exception leaves the handler as it is
ExceptNothing(exc) == exc.status

\* `except Exception as e: raise HTTPException(status_code=500, ...)`
ExceptException(exc) == 500

\* a variant without the `except HTTPException: raise` clause
ExceptEverything(exc) == 500

\* `except HTTPException: raise`, then `except Exception: raise HTTPException(500)`
ExceptHttpThenException(exc) == IF exc.type = "HTTPException" THEN exc.status ELSE 500

\* POST /search/text: the embedding call or the store search may fail
SearchByText(maxHits) ==
    /\ LoopFree
    /\ nRequests < MaxRequests
    /\ nRequests' = nRequests + 1
    /\ \E embedded \in BOOLEAN, up \in BOOLEAN :
        IF embedded /\ up
        THEN \E limit \in Limits :
                \E results \in SearchResults("text", limit, maxHits) :
                    /\ resp' = SearchResponse(JoinEach(results, "text"), "text")
                    /\ query' = [limit |-> limit, results |-> results, began |-> nRefresh]
                    /\ readGens' = CurrentGens
        ELSE /\ resp' = [kind |-> "text", status |-> ExceptException(OtherException),
                         cause |-> "exception"]
             /\ query' = NoQuery
             /\ readGens' = {}
    /\ UNCHANGED <<store, cache, pc, suspended, gen, load, snapshot, nRefresh, nWrites,
                   tmp_files, scrape>>

(* POST /search/image up to `await file.read()`. The HTTPException(400) of the *)
(* content type check is raised inside the handler's try.                     *)
SearchByImageBegin ==
    /\ LoopFree
    /\ nRequests < MaxRequests
    /\ nRequests' = nRequests + 1
    /\ \E limit \in Limits, is_image \in BOOLEAN :
        IF is_image
        THEN /\ Len(suspended) < MaxSuspended
             /\ suspended' = Append(suspended, [kind |-> "image", limit |-> limit,
                                                 began |-> nRefresh,
                                                 tmp_file |-> nRequests + 1])
             /\ tmp_files' = tmp_files \cup {nRequests + 1}
             /\ UNCHANGED <<query, resp, readGens>>
        ELSE /\ resp' = [kind |-> "image", status |-> ExceptException(HttpException(400)),
                         cause |-> "content_type"]
             /\ query' = NoQuery
             /\ readGens' = {}
             /\ UNCHANGED <<suspended, tmp_files>>
    /\ UNCHANGED <<store, cache, pc, gen, load, snapshot, nRefresh, nWrites, scrape>>

\* POST /search/image from the return of `await file.read()` to the response
SearchByImageResumeFrom(pool, maxHits) ==
    /\ LoopFree
    /\ \E i \in 1..Len(suspended) :
        /\ suspended[i].kind = "image"
        /\ suspended' = [j \in 1..(Len(suspended) - 1) |->
                            IF j < i THEN suspended[j] ELSE suspended[j + 1]]
        /\ \E read \in BOOLEAN, opened \in BOOLEAN, up \in BOOLEAN :
            /\ tmp_files' = IF read THEN tmp_files \ {suspended[i].tmp_file} ELSE tmp_files
            /\ IF read /\ opened /\ up
               THEN \E results \in SearchResultsFrom(pool, suspended[i].limit * 5, maxHits) :
                       /\ resp' = SearchResponse(
                                      SliceTo(get_unique_birds_from_results(results, "image"),
                                              suspended[i].limit), "image")
                       /\ query' = [limit |-> suspended[i].limit, results |-> results,
                                    began |-> suspended[i].began]
                       /\ readGens' = CurrentGens
               ELSE /\ resp' = [kind |-> "image", status |-> ExceptException(OtherException),
                                cause |-> "exception"]
                    /\ query' = NoQuery
                    /\ readGens' = {}
    /\ UNCHANGED <<store, cache, pc, gen, load, snapshot, nRefresh, nWrites, nRequests,
                   scrape>>

SearchByImageResume(maxHits) == SearchByImageResumeFrom(HitPool("image"), maxHits)

(* POST /search/audio up to `await file.read()`. The HTTPException(400) of the *)
(* content type check is raised inside the handler's try.                     *)
SearchByAudioBegin ==
    /\ LoopFree
    /\ nRequests < MaxRequests
    /\ nRequests' = nRequests + 1
    /\ \E limit \in Limits, is_audio \in BOOLEAN :
        IF is_audio
        THEN /\ Len(suspended) < MaxSuspended
             /\ suspended' = Append(suspended, [kind |-> "audio", limit |-> limit,
                                                 began |-> nRefresh,
                                                 tmp_file |-> nRequests + 1])
             /\ tmp_files' = tmp_files \cup {nRequests + 1}
             /\ UNCHANGED <<query, resp, readGens>>
        ELSE /\ resp' = [kind |-> "audio", status |-> ExceptException(HttpException(400)),
                         cause |-> "content_type"]
             /\ query' = NoQuery
             /\ readGens' = {}
             /\ UNCHANGED <<suspended, tmp_files>>
    /\ UNCHANGED <<store, cache, pc, gen, load, snapshot, nRefresh, nWrites, scrape>>

(* POST /search/audio from the return of `await file.read()` to the response: *)
(* the read, the feature extraction or the store search may fail.             *)
SearchByAudioResume(maxHits) ==
    /\ LoopFree
    /\ \E i \in 1..Len(suspended) :
        /\ suspended[i].kind = "audio"
        /\ suspended' = [j \in 1..(Len(suspended) - 1) |->
                            IF j < i THEN suspended[j] ELSE suspended[j + 1]]
        /\ \E read \in BOOLEAN, extracted \in BOOLEAN, up \in BOOLEAN :
            /\ tmp_files' = IF read THEN tmp_files \ {suspended[i].tmp_file} ELSE tmp_files
            /\ IF read /\ extracted /\ up
               THEN \E results \in SearchResults("audio", suspended[i].limit, maxHits) :
                       /\ resp' = SearchResponse(JoinEach(results, "audio"), "audio")
                       /\ query' = [limit |-> suspended[i].limit, results |-> results,
                                    began |-> suspended[i].began]
                       /\ readGens' = CurrentGens
               ELSE /\ resp' = [kind |-> "audio", status |-> ExceptException(OtherException),
                                cause |-> "exception"]
                    /\ query' = NoQuery
                    /\ readGens' = {}
    /\ UNCHANGED <<store, cache, pc, gen, load, snapshot, nRefresh, nWrites, nRequests,
                   scrape>>

\* GET /bird/{bird_id}
get_bird_info(bird_id) ==
    LET text_info == DictGet(ALL_TEXT_DATA, bird_id, EmptyPayload)
        images == DictGet(ALL_IMAGE_DATA, bird_id, << >>)
        audio_clips == DictGet(ALL_AUDIO_DATA, bird_id, << >>)
    IN  IF text_info = EmptyPayload /\ Len(images) = 0 /\ Len(audio_clips) = 0
        THEN [kind |-> "bird", status |-> ExceptHttpThenException(HttpException(404)),
              bird_id |-> bird_id]
        ELSE [kind |-> "bird", status |-> 200, bird_id |-> bird_id,
              body |-> [bird_id |-> bird_id,
                        species_name |-> GetStr(text_info, "species_name", UNKNOWN),
                        scientific_name |-> GetStr(text_info, "scientific_name", EmptyStr),
                        family |-> GetStr(text_info, "family", EmptyStr),
                        text_information |-> text_info,
                        raw_text_data |-> text_info,
                        images |-> images,
                        audio_clips |-> audio_clips,
                        counts |-> [images |-> Len(images), audio_clips |-> Len(audio_clips)]]]

\* a variant that takes the images of the bird out of the cache (pop for get)
GetBirdInfoPopping ==
    /\ LoopFree
    /\ nRequests < MaxRequests
    /\ nRequests' = nRequests + 1
    /\ \E bird_id \in 0..(MaxId + 1) :
        /\ resp' = get_bird_info(bird_id)
        /\ cache' = [cache EXCEPT !.image =
                        SelectSeq(cache.image, LAMBDA entry : entry.k /= bird_id)]
        /\ query' = NoQuery
        /\ readGens' = CurrentGens
    /\ UNCHANGED <<store, pc, suspended, gen, load, snapshot, nRefresh, nWrites,
                   tmp_files, scrape>>

GetBirdInfo ==
    /\ LoopFree
    /\ nRequests < MaxRequests
    /\ nRequests' = nRequests + 1
    /\ \E bird_id \in 0..(MaxId + 1) :
        /\ resp' = get_bird_info(bird_id)
        /\ query' = NoQuery
        /\ readGens' = CurrentGens
    /\ UNCHANGED <<store, cache, pc, suspended, gen, load, snapshot, nRefresh, nWrites,
                   tmp_files, scrape>>

\* one element of the list of GET /birds/all
BirdRecord(bird_id, text_info) ==
    LET images == DictGet(ALL_IMAGE_DATA, bird_id, << >>)
        audio_clips == DictGet(ALL_AUDIO_DATA, bird_id, << >>)
    IN  [bird_id |-> bird_id,
         species_name |-> GetStr(text_info, "species_name", UNKNOWN),
         scientific_name |-> GetStr(text_info, "scientific_name", EmptyStr),
         family |-> GetStr(text_info, "family", EmptyStr),
         text_description |-> GetStr(text_info, "searchable_text", EmptyStr),
         raw_text_data |-> text_info,
         size |-> GetStr(text_info, "size", EmptyStr),
         url |-> WikiUrl(text_info),
         images |-> images,
         primary_image |-> FirstOrNone(images),
         audio_clips |-> audio_clips,
         primary_audio |-> FirstOrNone(audio_clips)]

\* a variant that lists the ids of the image mapping after those of the text mapping
get_all_birds_of_all_ids ==
    LET others == SelectSeq(ALL_IMAGE_DATA, LAMBDA entry : ~DictHas(ALL_TEXT_DATA, entry.k))
        all_birds == [i \in 1..Len(ALL_TEXT_DATA) |->
                         BirdRecord(ALL_TEXT_DATA[i].k, ALL_TEXT_DATA[i].v)]
                     \o [i \in 1..Len(others) |-> BirdRecord(others[i].k, EmptyPayload)]
    IN  [kind |-> "all", status |-> 200,
         body |-> [results |-> all_birds, total_found |-> Len(all_birds),
                   search_type |-> "all_records"]]

\* GET /birds/all: one record per item of ALL_TEXT_DATA, in its order
get_all_birds ==
    LET all_birds == [i \in 1..Len(ALL_TEXT_DATA) |->
                         BirdRecord(ALL_TEXT_DATA[i].k, ALL_TEXT_DATA[i].v)]
    IN  [kind |-> "all", status |-> 200,
         body |-> [results |-> all_birds, total_found |-> Len(all_birds),
                   search_type |-> "all_records"]]

GetAllBirds ==
    /\ LoopFree
    /\ nRequests < MaxRequests
    /\ nRequests' = nRequests + 1
    /\ resp' = get_all_birds
    /\ query' = NoQuery
    /\ readGens' = CurrentGens
    /\ UNCHANGED <<store, cache, pc, suspended, gen, load, snapshot, nRefresh, nWrites,
                   tmp_files, scrape>>

\* GET /stats
get_database_stats ==
    [kind |-> "stats", status |-> 200,
     body |-> [database_stats |->
                  [text |-> [total_points |-> Len(ALL_TEXT_DATA), status |-> "loaded"],
                   image |-> [total_points |-> Len(ALL_IMAGE_DATA), status |-> "loaded"],
                   audio |-> [total_points |-> Len(ALL_AUDIO_DATA), status |-> "loaded"]],
               total_collections |-> 3]]

GetDatabaseStats ==
    /\ LoopFree
    /\ nRequests < MaxRequests
    /\ nRequests' = nRequests + 1
    /\ resp' = get_database_stats
    /\ query' = NoQuery
    /\ readGens' = CurrentGens
    /\ UNCHANGED <<store, cache, pc, suspended, gen, load, snapshot, nRefresh, nWrites,
                   tmp_files, scrape>>

---------------------------------------------------------------------------
(* main_1.py: the API variant that asks the store on every request *)

\* collections = [...], in the order the handler goes through them
COLLECTIONS == <<"bird_audio_search", "bird_image_search", "bird_text_search">>

\* collection_name.replace("bird_", "").replace("_search", "")
ModalityOf(collection_name) ==
    CASE collection_name = "bird_audio_search" -> "audio"
      [] collection_name = "bird_image_search" -> "image"
      [] collection_name = "bird_text_search" -> "text"

BIRD_SCROLL_LIMIT == 10

(* qdrant_client.scroll(collection_name, scroll_filter = bird_id matches,       *)
(* limit = 10): the first ten records of the collection whose bird_id is the    *)
(* one asked for, or an exception (up = FALSE)                                 *)
ScrollBird(collection_name, bird_id, up) ==
    LET matching == SelectSeq(store[ModalityOf(collection_name)],
                              LAMBDA payload : GetId(payload) = bird_id)
    IN  IF up
        THEN [raised |-> FALSE,
              points |-> SubSeq(matching, 1, Min(BIRD_SCROLL_LIMIT, Len(matching)))]
        ELSE [raised |-> TRUE, points |-> << >>]

\* the values of bird_info: a list of payloads, or the dict {"error": str(e)}
PyList(items) == [type |-> "list", items |-> items]
ErrorDict == [type |-> "dict", items |-> <<[k |-> "error", v |-> "str(e)"]>>]

\* bool(value) of a list or a dict: it is not empty
NotEmpty(value) == Len(value.items) > 0

\* a variant that looks at the lists of records only
AnyListValue(bird_info) ==
    \E i \in 1..Len(bird_info) : bird_info[i].v.type = "list" /\ NotEmpty(bird_info[i].v)

\* any(bird_info.values())
AnyValue(bird_info) == \E i \in 1..Len(bird_info) : NotEmpty(bird_info[i].v)

\* the loop of get_bird_info over the first n collections; up[c] is whether the
\* scroll of collection c works
RECURSIVE BirdInfoLoop(_, _, _)
BirdInfoLoop(bird_id, up, n) ==
    IF n = 0
    THEN EmptyDict
    ELSE LET bird_info == BirdInfoLoop(bird_id, up, n - 1)
             collection_name == COLLECTIONS[n]
             results == ScrollBird(collection_name, bird_id, up[collection_name])
         IN  IF results.raised
             THEN DictPut(bird_info, collection_name, ErrorDict)
             ELSE DictPut(bird_info, ModalityOf(collection_name), PyList(results.points))

\* main_1.py, GET /bird/{bird_id}
main_1_get_bird_info(bird_id, up) ==
    LET bird_info == BirdInfoLoop(bird_id, up, Len(COLLECTIONS))
    IN  IF ~AnyValue(bird_info)
        THEN [kind |-> "bird_1", status |-> ExceptHttpThenException(HttpException(404)),
              bird_id |-> bird_id]
        ELSE [kind |-> "bird_1", status |-> 200, bird_id |-> bird_id,
              body |-> [bird_id |-> bird_id, modalities |-> bird_info]]

CollectionNames == {COLLECTIONS[i] : i \in 1..Len(COLLECTIONS)}

(* A request to GET /bird/{bird_id} of main_1.py. The handler has no await: it  *)
(* runs in one step. query keeps which scrolls worked.                         *)
Main1GetBirdInfo ==
    /\ nRequests < MaxRequests
    /\ nRequests' = nRequests + 1
    /\ \E bird_id \in IDs, up \in [CollectionNames -> BOOLEAN] :
        /\ resp' = main_1_get_bird_info(bird_id, up)
        /\ query' = [bird_id |-> bird_id, up |-> up]
    /\ readGens' = {}
    /\ UNCHANGED <<store, cache, pc, suspended, gen, load, snapshot, nRefresh, nWrites,
                   tmp_files, scrape>>

---------------------------------------------------------------------------
(* image_data_scrapping.py: the collector of images from Wikimedia Commons *)

(* What the web answers to the request of get_image_info: the request fails,   *)
(* the page has no imageinfo, or it has one. Widths, heights and sizes are     *)
(* numbers.                                                                    *)
Fail == [kind |-> "fail"]
NoInfoPage == [kind |-> "noinfo"]
InfoPage(url, width, height, size) ==
    [kind |-> "info", url |-> url, width |-> width, height |-> height, size |-> size]

A_URL == <<"u">>

\* the url of a page that has none: `not image_info.get('url')` holds for None
\* and for the empty string alike
NO_URL == EmptyStr

\* pages of quality score 6, 4, 3 and 2, and one of score 5 without url
LargePage == InfoPage(A_URL, 1024, 768, 200000)
SmallPage == InfoPage(A_URL, 320, 240, 200000)
TinyFilePage == InfoPage(A_URL, 320, 240, 1000)
PoorPage == InfoPage(A_URL, 200, 100, 1000)
NoUrlPage == InfoPage(NO_URL, 640, 480, 200000)

(* A search result of search_wikimedia_images with what the web will do for    *)
(* it: the answers to the first, second and third request for its info and     *)
(* whether the download of its image works.                                    *)
SearchResult(title, responses, download_ok) ==
    [title |-> title, responses |-> responses, download_ok |-> download_ok]

Always(response) == <<response, response, response>>

\* what a search result can be, but for its title
ResultKinds ==
    {[responses |-> Always(LargePage), download_ok |-> TRUE],
     [responses |-> Always(LargePage), download_ok |-> FALSE],
     [responses |-> Always(SmallPage), download_ok |-> TRUE],
     [responses |-> Always(PoorPage), download_ok |-> TRUE],
     [responses |-> Always(NoUrlPage), download_ok |-> TRUE],
     [responses |-> Always(NoInfoPage), download_ok |-> TRUE],
     [responses |-> <<Fail, LargePage, LargePage>>, download_ok |-> TRUE]}

\* a variant that goes on to the next attempt at the end of the loop body
LoopEndContinues == "continue"

\* the `return None` that ends the body of the loop over the attempts
LoopEnd == "return"

MAX_ATTEMPTS == 3

(* get_image_info from the given attempt on: the value returned, the number of *)
(* HTTP requests made and the seconds slept                                    *)
RECURSIVE GetImageInfoFrom(_, _)
GetImageInfoFrom(result, attempt) ==
    IF attempt >= MAX_ATTEMPTS
    THEN [value |-> None, requests |-> 0, slept |-> 0]
    ELSE LET delay == 2 ^ (attempt + 1)
             response == result.responses[attempt + 1]
         IN  IF response.kind = "info"
             THEN [value |-> [url |-> response.url, width |-> response.width,
                              height |-> response.height, size |-> response.size,
                              title |-> result.title],
                   requests |-> 1, slept |-> delay]
             ELSE IF LoopEnd = "return"
             THEN [value |-> None, requests |-> 1, slept |-> delay]
             ELSE LET rest == GetImageInfoFrom(result, attempt + 1)
                  IN  [value |-> rest.value, requests |-> rest.requests + 1,
                       slept |-> rest.slept + delay]

get_image_info(result) == GetImageInfoFrom(result, 0)

\* the size part of the score
SizeScore(width, height) ==
    IF width >= 800 /\ height >= 600 THEN 3
    ELSE IF width >= 500 /\ height >= 400 THEN 2
    ELSE IF width >= 300 /\ height >= 200 THEN 1
    ELSE 0

\* 0.8 <= width / height <= 2.0, for width > 0 and height > 0
RatioScore(width, height) ==
    IF width > 0 /\ height > 0 /\ 10 * width >= 8 * height /\ width <= 2 * height
    THEN 2
    ELSE 0

FileSizeScore(size) == IF 50000 <= size /\ size <= 5000000 THEN 1 ELSE 0

evaluate_image_quality(image_info) ==
    IF image_info = None
    THEN 0
    ELSE SizeScore(image_info.width, image_info.height)
         + RatioScore(image_info.width, image_info.height)
         + FileSizeScore(image_info.size)

\* a variant that lets a score of 2 pass
AtThreshold(quality_score) == quality_score >= 2

\* quality_score > 2
AboveThreshold(quality_score) == quality_score > 2

RESULTS_EVALUATED == 10

(* The loop over search_results[:10]: the candidates (info, quality_score) and *)
(* the number of requests made, after the first n of the results               *)
RECURSIVE EvaluateResults(_, _)
EvaluateResults(results, n) ==
    IF n = 0
    THEN [image_candidates |-> << >>, requests |-> 0]
    ELSE LET before == EvaluateResults(results, n - 1)
             got == get_image_info(results[n])
             info == got.value
             quality_score == evaluate_image_quality(info)
         IN  [image_candidates |->
                 IF info # None /\ AboveThreshold(quality_score)
                 THEN Append(before.image_candidates,
                             [info |-> info, quality_score |-> quality_score])
                 ELSE before.image_candidates,
              requests |-> before.requests + got.requests]

\* where a candidate goes into candidates sorted by falling score: behind the
\* candidates of its score or more
RECURSIVE InsertByScore(_, _)
InsertByScore(sorted, candidate) ==
    IF Len(sorted) = 0
    THEN <<candidate>>
    ELSE IF Last(sorted).quality_score >= candidate.quality_score
    THEN Append(sorted, candidate)
    ELSE Append(InsertByScore(SubSeq(sorted, 1, Len(sorted) - 1), candidate), Last(sorted))

\* image_candidates.sort(key=lambda x: x[1], reverse=True): a stable sort
RECURSIVE SortByScore(_)
SortByScore(image_candidates) ==
    IF Len(image_candidates) = 0
    THEN << >>
    ELSE InsertByScore(SortByScore(SubSeq(image_candidates, 1, Len(image_candidates) - 1)),
                       Last(image_candidates))

\* what the web does for the image of a title
WebOf(search_results, title) ==
    CHOOSE result \in {search_results[i] : i \in 1..Len(search_results)} :
        result.title = title

\* download_image: None without url or when the download fails
download_image(search_results, image_info, bird_id, image_number) ==
    IF image_info = None \/ image_info.url = NO_URL
    THEN None
    ELSE IF WebOf(search_results, image_info.title).download_ok
    THEN [bird_id |-> bird_id, source_url |-> image_info.url,
          source_title |-> image_info.title, width |-> image_info.width,
          height |-> image_info.height, image_number |-> image_number]
    ELSE None

\* result['quality_score'] = score
WithQualityScore(result, score) ==
    [key \in DOMAIN result \cup {"quality_score"} |->
        IF key = "quality_score" THEN score ELSE result[key]]

(* The download loop over the first n of the chosen candidates: the list       *)
(* returned and the calls of download_image made, in order                     *)
RECURSIVE DownloadLoop(_, _, _, _)
DownloadLoop(search_results, chosen, bird_id, n) ==
    IF n = 0
    THEN [downloaded |-> << >>, calls |-> << >>]
    ELSE LET before == DownloadLoop(search_results, chosen, bird_id, n - 1)
             result == download_image(search_results, chosen[n].info, bird_id, n)
         IN  [downloaded |->
                 IF result # None
                 THEN Append(before.downloaded,
                             WithQualityScore(result, chosen[n].quality_score))
                 ELSE before.downloaded,
              calls |-> Append(before.calls, chosen[n])]

\* collect_species_images, from the return of search_wikimedia_images on
collect_species_images(search_results, bird_id, max_images) ==
    IF Len(search_results) = 0
    THEN [downloaded |-> << >>, calls |-> << >>, requests |-> 0]
    ELSE LET first == SliceTo(search_results, RESULTS_EVALUATED)
             evaluated == EvaluateResults(first, Len(first))
             chosen == SliceTo(SortByScore(evaluated.image_candidates), max_images)
             loop == DownloadLoop(search_results, chosen, bird_id, Len(chosen))
         IN  [downloaded |-> loop.downloaded, calls |-> loop.calls,
              requests |-> evaluated.requests]

(* The results of a search: up to MaxLead results of score 3 that all pass,    *)
(* then up to MaxTail results of any kind; titles are the positions.           *)
LeadResult(title) == SearchResult(title, Always(TinyFilePage), TRUE)

SearchResultLists ==
    UNION {{[i \in 1..(lead + tail) |->
                IF i <= lead
                THEN LeadResult(i)
                ELSE SearchResult(i, kinds[i - lead].responses, kinds[i - lead].download_ok)] :
            kinds \in [1..tail -> ResultKinds]} :
           lead \in {0, MaxLead - 1, MaxLead}, tail \in 0..MaxTail}

\* a run of the collector for one species begins: the search has returned
InitScrape ==
    /\ store = [m \in Modalities |-> << >>]
    /\ cache = [m \in Modalities |-> EmptyDict]
    /\ pc = "boot_text"
    /\ suspended = << >>
    /\ query = NoQuery
    /\ resp = NoResp
    /\ readGens = {}
    /\ gen = [m \in Modalities |-> 0]
    /\ load = [m \in Modalities |-> NoLoad]
    /\ snapshot = NoSnapshot
    /\ nRefresh = 0
    /\ nWrites = 0
    /\ nRequests = 0
    /\ tmp_files = {}
    /\ \E search_results \in SearchResultLists, max_images \in 0..MaxImages :
        scrape = [phase |-> "searched", search_results |-> search_results,
                  max_images |-> max_images]

\* the rest of collect_species_images, for a bird id
CollectSpeciesImages ==
    /\ scrape.phase = "searched"
    /\ \E bird_id \in IDs :
        LET done == collect_species_images(scrape.search_results, bird_id,
                                           scrape.max_images)
        IN  scrape' = [phase |-> "collected", search_results |-> scrape.search_results,
                       max_images |-> scrape.max_images, bird_id |-> bird_id,
                       downloaded |-> done.downloaded, calls |-> done.calls,
                       requests |-> done.requests]
    /\ UNCHANGED <<store, cache, pc, suspended, query, resp, readGens, gen, load,
                   snapshot, nRefresh, nWrites, nRequests, tmp_files>>

\* one call of get_image_info, for the title of one of the search results
GetImageInfo ==
    /\ scrape.phase = "searched"
    /\ \E i \in 1..Len(scrape.search_results) :
        LET got == get_image_info(scrape.search_results[i])
        IN  scrape' = [phase |-> "info", search_results |-> scrape.search_results,
                       max_images |-> scrape.max_images, asked |-> i,
                       value |-> got.value, requests |-> got.requests,
                       slept |-> got.slept]
    /\ UNCHANGED <<store, cache, pc, suspended, query, resp, readGens, gen, load,
                   snapshot, nRefresh, nWrites, nRequests, tmp_files>>

NextScrape == CollectSpeciesImages \/ GetImageInfo

SpecScrape == InitScrape /\ [][NextScrape]_vars

---------------------------------------------------------------------------
(* Specifications *)

Init == InitWith(Stores(MaxRecords))

NextLoad ==
    \/ LoadText
    \/ LoadImage
    \/ LoadAudio
    \/ RefreshBegin(MaxRefresh)
    \/ RefreshReturn
    \/ StoreWrite(MaxRecords)

\* the server without requests other than refresh: loads, refreshes, store writes
SpecLoad == Init /\ [][NextLoad]_vars

NextJoin ==
    \/ LoadText
    \/ LoadImage
    \/ LoadAudio
    \/ SearchByText(MaxHits)
    \/ SearchByImageBegin
    \/ SearchByImageResume(MaxHits)
    \/ SearchByAudioBegin
    \/ SearchByAudioResume(MaxHits)
    \/ GetBirdInfo
    \/ GetAllBirds
    \/ GetDatabaseStats

\* the server answering requests from the caches of its startup load
SpecJoin == Init /\ [][NextJoin]_vars

InitBoot == InitWith(Stores(MaxRecords) \cup PathStores)

NextBoot ==
    \/ LoadText
    \/ LoadImage
    \/ LoadAudio

\* the import of the module: the three startup loads
SpecBoot == InitBoot /\ [][NextBoot]_vars

InitScenario == InitWith({ScenarioStore})

NextScenario ==
    \/ LoadText
    \/ LoadImage
    \/ LoadAudio
    \/ SearchByImageBegin
    \/ SearchByImageResumeFrom(ScenarioHitPool, MaxHits)

\* image searches over a store of three birds, one of them with two images
SpecScenario == InitScenario /\ [][NextScenario]_vars

InitPage == InitWith(PageStores)

NextPage ==
    \/ LoadText
    \/ LoadImage
    \/ LoadAudio
    \/ RefreshBegin(MaxRefresh)
    \/ RefreshReturn

\* startup load and refreshes over collections of a page and more
SpecPage == InitPage /\ [][NextPage]_vars

\* main_1.py serving one request over any store
NextMain1 == Main1GetBirdInfo

SpecMain1 == Init /\ [][NextMain1]_vars

InitServing == InitWith(Stores(MaxServingRecords))

Next ==
    \/ LoadText
    \/ LoadImage
    \/ LoadAudio
    \/ RefreshBegin(MaxServingRefresh)
    \/ RefreshReturn
    \/ StoreWrite(MaxServingRecords)
    \/ SearchByText(MaxServingHits)
    \/ SearchByImageBegin
    \/ SearchByImageResume(MaxServingHits)
    \/ SearchByAudioBegin
    \/ SearchByAudioResume(MaxServingHits)
    \/ GetBirdInfo
    \/ GetAllBirds
    \/ GetDatabaseStats

\* the server: refreshes, store writes and requests in any interleaving
Spec == InitServing /\ [][Next]_vars

---------------------------------------------------------------------------
(* Properties of the result joiner (SpecJoin) *)

Hits == query.results
HitId(i) == GetId(Hits[i].payload)

\* the hits that carry an entity id, and among them the first of each id
WithId == {i \in 1..Len(Hits) : HitId(i) /= NoneId}
FirstOcc == {i \in WithId : \A j \in 1..(i - 1) : HitId(j) /= HitId(i)}

\* the k-th smallest element of a set of numbers
Nth(S, k) == CHOOSE i \in S : Cardinality({j \in S : j < i}) = k - 1

TextOk == resp.kind = "text" /\ resp.status = 200
ImageOk == resp.kind = "image" /\ resp.status = 200
AudioOk == resp.kind = "audio" /\ resp.status = 200
Results == resp.body.results

\* the hit the k-th result of the response was built from
Kept == IF resp.kind = "image" THEN FirstOcc ELSE WithId
HitOf(k) == Hits[Nth(Kept, k)]

CachedIn(m, bird_id) == bird_id \in DictKeys(cache[m])

(* C2: the results of an image search are the joins of the first hit of each   *)
(* entity id, in the order of these first hits (cut to the requested limit);   *)
(* the order does not follow the scores.                                       *)
C2_DedupFirstOccurrence ==
    ImageOk =>
        Results = SliceTo([k \in 1..Cardinality(FirstOcc) |->
                              create_comprehensive_result(Hits[Nth(FirstOcc, k)], "image")],
                          query.limit)

\* ids [a, b, a], the second hit of a scored higher than the first: results for [a, b]
C2_Witness ==
    /\ ImageOk
    /\ Len(Hits) = 3
    /\ WithId = {1, 2, 3}
    /\ HitId(1) = HitId(3)
    /\ HitId(1) /= HitId(2)
    /\ Hits[3].score > Hits[1].score
    /\ Len(Results) = 2
    /\ Results[1].bird_id = HitId(1)
    /\ Results[1].confidence_score = Hits[1].score
    /\ Results[2].bird_id = HitId(2)

\* the fields of a result that come from the text cache only are empty
TextFieldsEmpty(r) ==
    /\ r.scientific_name = EmptyStr
    /\ r.family = EmptyStr
    /\ r.text_description = EmptyStr
    /\ r.size = EmptyStr
    /\ r.url = EmptyStr

\* every hit with an id has its result: none is null, none is dropped
EveryIdJoined ==
    /\ Len(Results) = Cardinality(WithId)
    /\ \A k \in 1..Len(Results) : Results[k].bird_id = HitId(Nth(WithId, k))

(* C3 as stated: for a hit whose id is not in the text cache the result is      *)
(* there, its species name is "Unknown" and its text fields are empty.          *)
C3_UnknownName ==
    TextOk =>
        /\ EveryIdJoined
        /\ \A k \in 1..Len(Results) :
              ~CachedIn("text", Results[k].bird_id) =>
                  /\ Results[k].species_name = UNKNOWN
                  /\ TextFieldsEmpty(Results[k])

(* C3 amended: for a hit whose id is not in the text cache the result is there, *)
(* its species name is the hit's own species name when the hit has a non-empty  *)
(* one and "Unknown" otherwise, and its text fields are empty.                  *)
C3_DefaultsWithoutText ==
    TextOk =>
        /\ EveryIdJoined
        /\ \A k \in 1..Len(Results) :
              ~CachedIn("text", Results[k].bird_id) =>
                  /\ Results[k].species_name =
                        IF HasTruthy(HitOf(k).payload, "species_name")
                        THEN HitOf(k).payload.species_name
                        ELSE UNKNOWN
                  /\ TextFieldsEmpty(Results[k])

\* two uncached hits in one response, one named by its payload and one not
C3_Witness ==
    /\ TextOk
    /\ \E k \in 1..Len(Results) :
          /\ ~CachedIn("text", Results[k].bird_id)
          /\ Results[k].species_name = UNKNOWN
    /\ \E k \in 1..Len(Results) :
          /\ ~CachedIn("text", Results[k].bird_id)
          /\ Results[k].species_name = Name(Results[k].bird_id)
    /\ cache.text /= EmptyDict

(* C4: the join is null exactly for the hits without entity id; a hit whose id  *)
(* is in none of the three caches (id 0 too) gets a result of defaults: empty   *)
(* text fields, empty image and audio lists, null primary fields.               *)
C4_NullIffNoId ==
    /\ TextOk => EveryIdJoined
    /\ (TextOk \/ ImageOk) =>
          \A k \in 1..Len(Results) :
              (\A m \in Modalities : ~CachedIn(m, Results[k].bird_id)) =>
                  /\ Results[k].bird_id = GetId(HitOf(k).payload)
                  /\ TextFieldsEmpty(Results[k])
                  /\ Results[k].raw_text_data = EmptyPayload
                  /\ Results[k].images = << >>
                  /\ Results[k].audio_clips = << >>
                  /\ Results[k].primary_image = None
                  /\ Results[k].primary_audio = None

\* a hit without id dropped beside a hit of the uncached id 0, which is joined
C4_Witness ==
    /\ TextOk
    /\ Len(Hits) = 2
    /\ HitId(1) = NoneId
    /\ HitId(2) = 0
    /\ \A m \in Modalities : ~CachedIn(m, 0)
    /\ Len(Results) = 1
    /\ Results[1].bird_id = 0
    /\ Results[1].primary_image = None
    /\ \E m \in Modalities : cache[m] /= EmptyDict

(* C5: GET /bird/{id} answers 404 exactly when the id is in none of the three   *)
(* caches, answers 200 with the cached records of the id otherwise, and never   *)
(* answers 500.                                                                *)
C5_NotFoundIffUncached ==
    resp.kind = "bird" =>
        LET cached == \E m \in Modalities : CachedIn(m, resp.bird_id)
        IN  /\ resp.status = IF cached THEN 200 ELSE 404
            /\ cached =>
                  /\ resp.body.bird_id = resp.bird_id
                  /\ resp.body.raw_text_data = DictGet(cache.text, resp.bird_id, EmptyPayload)
                  /\ resp.body.images = DictGet(cache.image, resp.bird_id, << >>)
                  /\ resp.body.audio_clips = DictGet(cache.audio, resp.bird_id, << >>)

\* a 404 for an id that is cached nowhere while another id is cached
C5_Witness ==
    /\ resp.kind = "bird"
    /\ resp.status = 404
    /\ \A m \in Modalities : ~CachedIn(m, resp.bird_id)
    /\ \E m \in Modalities : cache[m] /= EmptyDict

(* C9: primary_image of a result is null when the cached image list of the      *)
(* entity is empty and is the first element of that list otherwise; likewise    *)
(* primary_audio and the audio list.                                           *)
C9_PrimaryIsFirst ==
    (TextOk \/ ImageOk) =>
        \A k \in 1..Len(Results) :
            LET images == DictGet(cache.image, Results[k].bird_id, << >>)
                audio_clips == DictGet(cache.audio, Results[k].bird_id, << >>)
            IN  /\ Results[k].primary_image = IF Len(images) = 0 THEN None ELSE images[1]
                /\ Results[k].primary_audio =
                      IF Len(audio_clips) = 0 THEN None ELSE audio_clips[1]

\* the first cached image is primary although the second has the higher quality
\* score, beside a result without images whose primary image is null
C9_Witness ==
    /\ TextOk
    /\ \E k \in 1..Len(Results) :
          LET images == DictGet(cache.image, Results[k].bird_id, << >>)
          IN  /\ Len(images) = 2
              /\ images[2].quality_score > images[1].quality_score
              /\ Results[k].primary_image = images[1]
    /\ \E k \in 1..Len(Results) : Results[k].primary_image = None

---------------------------------------------------------------------------
(* Properties of the loaders and of refresh (SpecLoad, SpecBoot) *)

\* the mapping a loader builds from the current records of its collection
Loaded(m) ==
    CASE m = "text" -> TextDict(store.text)
      [] m = "image" -> ImageDict(store.image)
      [] OTHER -> AudioDict(store.audio)

(* C6: a loader whose store call failed has answered the empty mapping after    *)
(* one store call and has not raised: the import does not end in an exception   *)
(* and a refresh request is answered with status 200.                          *)
C6_FailedLoadIsEmpty ==
    /\ pc /= "crashed"
    /\ resp.kind = "refresh" => resp.status = 200
    /\ \A m \in Modalities :
          load[m].failed => cache[m] = EmptyDict /\ load[m].calls = 1

\* a refresh answered although every store call of it failed, after a startup
\* that had loaded records
C6_Witness ==
    /\ resp.kind = "refresh"
    /\ resp.status = 200
    /\ pc = "idle"
    /\ nRefresh = 1
    /\ \A m \in Modalities : load[m].failed /\ load[m].calls = 1
    /\ resp.body.counts = [text |-> 0, images |-> 0, audio |-> 0]
    /\ TotalRecords(store) > 0

(* C7: when the three loads of a refresh are done, the cache of a modality       *)
(* whose load failed is empty, and the cache of a modality whose load worked    *)
(* is the mapping built from the records of its collection (as long as nobody   *)
(* has written to the collection since).                                       *)
C7_FailedModalityEmptied ==
    pc = "r_ret" =>
        \A m \in Modalities :
            /\ load[m].failed => cache[m] = EmptyDict
            /\ (~load[m].failed /\ ~load[m].dirty) => cache[m] = Loaded(m)

\* one modality loses the entries it had, another one has got new entries
C7_Witness ==
    /\ pc = "r_ret"
    /\ \E m \in Modalities :
          /\ load[m].failed
          /\ snapshot[m] /= EmptyDict
          /\ cache[m] = EmptyDict
          /\ \E other \in Modalities \ {m} :
                /\ ~load[other].failed
                /\ cache[other] /= EmptyDict
                /\ cache[other] /= snapshot[other]
                /\ cache[other] = Loaded(other)

\* the three loads of the second or a later refresh are done, and no collection
\* was written between its scroll of the refresh before and its scroll of this one
SecondOfTwoRefreshes ==
    /\ pc = "r_ret"
    /\ nRefresh >= 2
    /\ \A m \in Modalities : load[m].unchanged

(* C8 as stated: the second of two consecutive refreshes without a change of    *)
(* the store's data in between leaves the three caches as the first left them.  *)
C8_RefreshIdempotent ==
    SecondOfTwoRefreshes => cache = snapshot

(* C8 amended: the second of two consecutive refreshes without a change of the  *)
(* store's data in between leaves the three caches as the first left them,      *)
(* provided each store call of the second refresh has the outcome (success or   *)
(* failure) it had in the first.                                               *)
C8_IdempotentOnSameOutcome ==
    (SecondOfTwoRefreshes /\ \A m \in Modalities : load[m].failed = load[m].prevFailed)
        => cache = snapshot

\* two refreshes of a store that holds records, every store call a success
C8_Witness ==
    /\ SecondOfTwoRefreshes
    /\ nRefresh = 2
    /\ \A m \in Modalities : ~load[m].failed /\ ~load[m].prevFailed
    /\ cache.image /= EmptyDict
    /\ cache = snapshot

\* the characters of a path after its last separator of either kind
FinalSegment(path) ==
    LET seps == {i \in 1..Len(path) : path[i] \in {"/", "\\"}}
        from == IF seps = {} THEN 1 ELSE (CHOOSE i \in seps : \A j \in seps : j <= i) + 1
    IN  SubSeq(path, from, Len(path))

\* the audio records of the cache
CachedAudio ==
    UNION {{cache.audio[e].v[i] : i \in 1..Len(cache.audio[e].v)} : e \in 1..Len(cache.audio)}

(* C10: every cached audio record with a clip path has the playback URL made of *)
(* the audio base URL and the characters of the path after its last separator,  *)
(* where a back-slash and a forward slash both separate, mixed or not.          *)
C10_AudioUrlIsFinalSegment ==
    \A r \in CachedAudio :
        HasTruthy(r, "clip_path") =>
            /\ "audio_url" \in DOMAIN r
            /\ r.audio_url = AUDIO_BASE_URL \o FinalSegment(r.clip_path)

\* a path with a forward slash before its last back-slash, as a\a/a\.a is
C10_Witness ==
    \E r \in CachedAudio :
        /\ HasTruthy(r, "clip_path")
        /\ Len(r.clip_path) = MaxPathLen
        /\ \E i, j \in 1..Len(r.clip_path) :
              /\ i < j
              /\ r.clip_path[i] = "/"
              /\ r.clip_path[j] = "\\"
              /\ \A h \in (j + 1)..Len(r.clip_path) : r.clip_path[h] \notin {"/", "\\"}
              /\ j < Len(r.clip_path)
              /\ r.audio_url = AUDIO_BASE_URL \o SubSeq(r.clip_path, j + 1, Len(r.clip_path))

---------------------------------------------------------------------------
(* Properties of the server under refreshes (Spec) *)

(* C1: the text, image and audio mappings a response is built from are all of   *)
(* one load: all three of the load before a refresh or all three of the load    *)
(* of that refresh, also when the request was taken up before the refresh and   *)
(* answered after it.                                                          *)
C1_NoMixedSnapshots ==
    Cardinality(readGens) <= 1

\* an upload taken up before the first refresh and answered, with a result, from
\* the mappings of that refresh
C1_Witness ==
    /\ ImageOk
    /\ query.began = 0
    /\ readGens = {1}
    /\ Len(Results) = 1
    /\ Results[1].images /= << >>

---------------------------------------------------------------------------
(* Properties of searches, loaders and handlers, continued *)

HitIds == [i \in 1..Len(Hits) |-> HitId(i)]
ResultIds == [k \in 1..Len(Results) |-> Results[k].bird_id]

(* C11: with text records of ids 1, 2, 3 and two image records of id 1 in the    *)
(* store, all loaded at startup, an image search whose hits have the ids        *)
(* [1, 1, 2] answers exactly two results, of ids 1 and 2 in this order, the     *)
(* first with 2 images and the second with none (the limit being 2 or more).    *)
C11_EndToEndScenario ==
    ( /\ ImageOk
      /\ store = ScenarioStore
      /\ \A m \in Modalities : ~load[m].failed
      /\ HitIds = <<1, 1, 2>>
      /\ query.limit >= 2 )
    => /\ ResultIds = <<1, 2>>
       /\ Len(Results[1].images) = 2
       /\ Len(Results[2].images) = 0

\* the scenario, the two hits of id 1 being the two images of id 1
C11_Witness ==
    /\ ImageOk
    /\ cache.text = TextDict(ScenarioStore.text)
    /\ cache.image = ImageDict(ScenarioStore.image)
    /\ HitIds = <<1, 1, 2>>
    /\ Hits[1].payload /= Hits[2].payload
    /\ query.limit = 2
    /\ ResultIds = <<1, 2>>
    /\ Results[1].images = ScenarioStore.image
    /\ Results[2].images = << >>
    /\ Results[2].species_name = Name(2)

\* the value of key in the payload if it has one, in the text record if not
PayloadThenText(payload, text_info, key, default) ==
    IF HasTruthy(payload, key) THEN payload[key] ELSE GetStr(text_info, key, default)

(* C12 as stated: species name, scientific name and family of a result are the  *)
(* values of the hit's payload when it has them and of the cached text record   *)
(* otherwise, "Unknown" being the last resort for the species name only.        *)
C12_IdentityPrefersPayload ==
    (TextOk \/ ImageOk \/ AudioOk) =>
        \A k \in 1..Len(Results) :
            LET payload == HitOf(k).payload
                text_info == DictGet(cache.text, Results[k].bird_id, EmptyPayload)
            IN  /\ Results[k].species_name =
                      PayloadThenText(payload, text_info, "species_name", UNKNOWN)
                /\ Results[k].scientific_name =
                      PayloadThenText(payload, text_info, "scientific_name", EmptyStr)
                /\ Results[k].family = PayloadThenText(payload, text_info, "family", EmptyStr)

\* a text hit with a scientific name and a family, no text record cached for its
\* id: the result has the species name of the hit and neither of the other two
C12_Witness ==
    /\ TextOk
    /\ cache.text = EmptyDict
    /\ Len(Results) = 1
    /\ HasTruthy(HitOf(1).payload, "scientific_name")
    /\ HasTruthy(HitOf(1).payload, "family")
    /\ Results[1].species_name = HitOf(1).payload.species_name
    /\ Results[1].scientific_name = EmptyStr
    /\ Results[1].family = EmptyStr

\* the startup load of a modality is done and its store call worked
BootLoaded(m) == load[m].calls > 0 /\ ~load[m].failed /\ nRefresh = 0

(* C13 as stated: a scrolled record without entity id is cached under no key,   *)
(* a null key included, and the records with an id of the same scroll are       *)
(* cached.                                                                     *)
C13_NoIdRecordSkipped ==
    \A m \in Modalities :
        BootLoaded(m) =>
            /\ NoneId \notin DictKeys(cache[m])
            /\ \A i \in 1..Len(store[m]) :
                  GetId(store[m][i]) /= NoneId => CachedIn(m, GetId(store[m][i]))

\* a text record without id cached under the null key beside a record with an id
C13_Witness ==
    /\ BootLoaded("text")
    /\ Len(store.text) = 2
    /\ GetId(store.text[1]) = NoneId
    /\ GetId(store.text[2]) /= NoneId
    /\ DictGet(cache.text, NoneId, EmptyPayload) = store.text[1]
    /\ CachedIn("text", GetId(store.text[2]))

(* C14: the results of a text or audio search are the joins of the hits that    *)
(* have an entity id, in hit order: a hit without id is left out and the hits   *)
(* after it are joined still; total_found is the number of results returned,    *)
(* in an image search too, whose results follow the order of the hits.          *)
C14_NullJoinDropped ==
    /\ (TextOk \/ AudioOk) =>
          Results = [k \in 1..Cardinality(WithId) |->
                        create_comprehensive_result(Hits[Nth(WithId, k)], resp.kind)]
    /\ ImageOk =>
          ResultIds = SliceTo([k \in 1..Cardinality(FirstOcc) |-> HitId(Nth(FirstOcc, k))],
                              query.limit)
    /\ (TextOk \/ AudioOk \/ ImageOk) =>
          /\ resp.body.total_found = Len(Results)
          /\ \A k \in 1..Len(Results) : Results[k] /= None

\* an audio search: a hit without id before a hit of a cached id, which is joined
C14_Witness ==
    /\ AudioOk
    /\ Len(Hits) = 2
    /\ HitId(1) = NoneId
    /\ HitId(2) /= NoneId
    /\ CachedIn("audio", HitId(2))
    /\ ResultIds = <<HitId(2)>>
    /\ Results[1].confidence_score = Hits[2].score
    /\ resp.body.total_found = 1

(* C15 as stated: the results of an audio search and of an image search never   *)
(* hold two results of the same entity id.                                     *)
C15_NoDuplicateEntities ==
    (AudioOk \/ ImageOk) =>
        \A j, k \in 1..Len(Results) : j < k => Results[j].bird_id /= Results[k].bird_id

\* an audio search of limit 2 answering two results of one entity
C15_Witness ==
    /\ AudioOk
    /\ query.limit = 2
    /\ Len(Hits) = 2
    /\ Len(Results) = 2
    /\ Results[1].bird_id = Results[2].bird_id

\* the places of the startup load and of refresh_cache before an assignment
LoadPcs == {"boot_text", "boot_image", "boot_audio", "r_text", "r_image", "r_audio"}

(* C16: a step that changes one of the three cache mappings is an assignment    *)
(* of the startup load or of refresh_cache: no search, detail, list or stats    *)
(* request changes a mapping.                                                  *)
C16_CachesWrittenByLoadsOnly ==
    [][cache' /= cache => pc \in LoadPcs]_vars

\* a detail request answered from caches that a refresh has loaded
C16_Witness ==
    /\ resp.kind = "bird"
    /\ resp.status = 200
    /\ pc = "idle"
    /\ nRefresh = 1
    /\ \E m \in Modalities : CachedIn(m, resp.bird_id)

StoreIds(m) == {GetId(store[m][i]) : i \in 1..Len(store[m])}

(* C17: when the loads of a refresh are done, a mapping has the ids of the       *)
(* records of its collection as keys and no other (none when its store call     *)
(* failed): an id of the mapping it replaces that the store holds no more is    *)
(* gone; a text entry is a record of the collection and a list of images or     *)
(* audio clips has as many records as the collection has of the id (as long as  *)
(* nobody has written to the collection since).                                *)
C17_WholesaleReplacement ==
    pc = "r_ret" =>
        \A m \in Modalities :
            ~load[m].dirty =>
                /\ DictKeys(cache[m]) = IF load[m].failed THEN {} ELSE StoreIds(m)
                /\ Len(cache[m]) = Cardinality(DictKeys(cache[m]))
                /\ \A e \in 1..Len(cache[m]) :
                      IF m = "text"
                      THEN \E i \in 1..Len(store[m]) :
                              /\ store[m][i] = cache[m][e].v
                              /\ GetId(store[m][i]) = cache[m][e].k
                      ELSE Len(cache[m][e].v) =
                              Cardinality({i \in 1..Len(store[m]) :
                                              GetId(store[m][i]) = cache[m][e].k})

\* a loaded mapping that still has entries and lacks an id of the mapping before
C17_Witness ==
    /\ pc = "r_ret"
    /\ \E m \in Modalities :
          /\ ~load[m].failed
          /\ ~load[m].dirty
          /\ cache[m] /= EmptyDict
          /\ DictKeys(snapshot[m]) \ DictKeys(cache[m]) /= {}

(* C18: every request ends in a response of status 200, 400, 404 or 500; a      *)
(* failure of the store, of the embedding call or of the feature extraction     *)
(* ends in status 500; refresh ends in status 200; the import does not end in   *)
(* an exception.                                                               *)
C18_NoUnhandledFault ==
    /\ pc /= "crashed"
    /\ resp.kind /= "none" => resp.status \in {200, 400, 404, 500}
    /\ resp.kind = "refresh" => resp.status = 200
    /\ ("cause" \in DOMAIN resp /\ resp.cause = "exception") => resp.status = 500

\* an audio search that failed after the upload was read, answered with 500
C18_Witness ==
    /\ resp.kind = "audio"
    /\ "cause" \in DOMAIN resp
    /\ resp.cause = "exception"
    /\ resp.status = 500
    /\ suspended = << >>

\* the upload was turned down for its content type
Rejected == resp.kind \in {"audio", "image"} /\ "cause" \in DOMAIN resp
                /\ resp.cause = "content_type"

(* C19 as stated: an upload whose content type is not audio/... (audio search)  *)
(* or image/... (image search) is answered with status 400.                    *)
C19_RejectedWith400 ==
    Rejected => resp.status = 400

\* an image search turned down for the content type and answered with 500
C19_Witness ==
    /\ Rejected
    /\ resp.kind = "image"
    /\ resp.status = 500

\* a record without the field the audio loader adds
WithoutAudioUrl(r) == [key \in DOMAIN r \ {"audio_url"} |-> r[key]]

(* C20: after the startup load of the images, and of the audio clips, the keys  *)
(* of the mapping are the ids of the scrolled records, each once, and the list  *)
(* of an id is the sequence of the scrolled records of that id in scroll order  *)
(* (an audio record with its audio_url added).                                 *)
C20_GroupedInScrollOrder ==
    \A m \in {"image", "audio"} :
        BootLoaded(m) =>
            /\ DictKeys(cache[m]) = StoreIds(m)
            /\ Len(cache[m]) = Cardinality(StoreIds(m))
            /\ \A e \in 1..Len(cache[m]) :
                  [i \in 1..Len(cache[m][e].v) |-> WithoutAudioUrl(cache[m][e].v[i])]
                      = SelectSeq(store[m], LAMBDA r : GetId(r) = cache[m][e].k)

\* two different image records of one id, cached in the order of the scroll
C20_Witness ==
    /\ BootLoaded("image")
    /\ Len(store.image) = 2
    /\ store.image[1] /= store.image[2]
    /\ GetId(store.image[1]) = GetId(store.image[2])
    /\ GetId(store.image[1]) /= NoneId
    /\ DictGet(cache.image, GetId(store.image[1]), << >>) = store.image

(* C21: an image search of limit 0 or more asks the store for at most 5 * limit  *)
(* hits and answers the first limit distinct entity ids of the hits, in hit     *)
(* order: at most limit results, and total_found is their number.               *)
C21_OverfetchThenLimit ==
    (ImageOk /\ query.limit >= 0) =>
        LET n == IF Cardinality(FirstOcc) < query.limit
                 THEN Cardinality(FirstOcc)
                 ELSE query.limit
        IN  /\ Len(Hits) <= 5 * query.limit
            /\ Len(Results) <= query.limit
            /\ ResultIds = [k \in 1..n |-> HitId(Nth(FirstOcc, k))]
            /\ resp.body.total_found = Len(Results)

\* limit 1, three hits of two entities: one result, of the first entity
C21_Witness ==
    /\ ImageOk
    /\ query.limit = 1
    /\ Len(Hits) = 3
    /\ Cardinality(FirstOcc) = 2
    /\ ResultIds = <<HitId(1)>>
    /\ resp.body.total_found = 1

(* C23: a result has the score of its hit, the search type the handler passed,  *)
(* the entity id of the hit, and as images and audio clips the whole cached     *)
(* lists of that id.                                                           *)
C23_ScoreTagIdAndLists ==
    (TextOk \/ ImageOk \/ AudioOk) =>
        \A k \in 1..Len(Results) :
            /\ Results[k].confidence_score = HitOf(k).score
            /\ Results[k].search_match_type = resp.kind
            /\ Results[k].bird_id = GetId(HitOf(k).payload)
            /\ Results[k].images = DictGet(cache.image, Results[k].bird_id, << >>)
            /\ Results[k].audio_clips = DictGet(cache.audio, Results[k].bird_id, << >>)

\* an audio hit of the best score for an entity with two cached images
C23_Witness ==
    /\ AudioOk
    /\ Len(Results) = 1
    /\ Results[1].search_match_type = "audio"
    /\ Results[1].confidence_score = MaxScore
    /\ Hits[1].score = MaxScore
    /\ Len(Results[1].images) = 2
    /\ Results[1].images = store.image

AllOk == resp.kind = "all" /\ resp.status = 200

(* C24: GET /birds/all answers one record per key of the text mapping, in its   *)
(* order, each with the cached images and audio clips of the id; total_found    *)
(* is the size of the text mapping; an id that only the image or the audio      *)
(* mapping has is not listed.                                                  *)
C24_ListAllFollowsTextCache ==
    resp.kind = "all" =>
        /\ resp.status = 200
        /\ ResultIds = [i \in 1..Len(cache.text) |-> cache.text[i].k]
        /\ resp.body.total_found = Len(cache.text)
        /\ \A k \in 1..Len(Results) :
              /\ Results[k].raw_text_data = cache.text[k].v
              /\ Results[k].images = DictGet(cache.image, Results[k].bird_id, << >>)
              /\ Results[k].audio_clips = DictGet(cache.audio, Results[k].bird_id, << >>)

\* one bird with a text record and another with an image only: one record listed
C24_Witness ==
    /\ AllOk
    /\ Len(Results) = 1
    /\ resp.body.total_found = 1
    /\ DictKeys(cache.image) \ DictKeys(cache.text) /= {}
    /\ NoneId \notin DictKeys(cache.image)

(* C27: after the startup load of the text records the text mapping has one     *)
(* key per distinct id scrolled, and the entry of an id is the last scrolled    *)
(* record of that id.                                                          *)
C27_LastTextRecordWins ==
    BootLoaded("text") =>
        /\ Len(cache.text) = Cardinality(StoreIds("text"))
        /\ DictKeys(cache.text) = StoreIds("text")
        /\ \A i \in 1..Len(store.text) :
              (\A j \in (i + 1)..Len(store.text) :
                    GetId(store.text[j]) /= GetId(store.text[i]))
                  => DictGet(cache.text, GetId(store.text[i]), EmptyPayload) = store.text[i]

\* two different text records of one id: the second is the cached one
C27_Witness ==
    /\ BootLoaded("text")
    /\ Len(store.text) = 2
    /\ GetId(store.text[1]) = GetId(store.text[2])
    /\ GetId(store.text[1]) /= NoneId
    /\ store.text[1] /= store.text[2]
    /\ cache.text = <<[k |-> GetId(store.text[2]), v |-> store.text[2]]>>

ScrollLimit(m) ==
    CASE m = "text" -> TEXT_SCROLL_LIMIT
      [] m = "image" -> IMAGE_SCROLL_LIMIT
      [] OTHER -> AUDIO_SCROLL_LIMIT

\* the records a mapping holds (an audio record without the audio_url added)
CachedRecords(m) ==
    IF m = "text"
    THEN {cache.text[e].v : e \in 1..Len(cache.text)}
    ELSE UNION {{WithoutAudioUrl(cache[m][e].v[i]) : i \in 1..Len(cache[m][e].v)} :
                   e \in 1..Len(cache[m])}

\* the records of a collection up to position n
FirstRecords(m, n) == {store[m][i] : i \in 1..(IF n < Len(store[m]) THEN n ELSE Len(store[m]))}

---------------------------------------------------------------------------
(* C26: the temporary file of an upload *)

\* the temporary files of the requests suspended at `await file.read()`
PendingTmpFiles == {suspended[i].tmp_file : i \in 1..Len(suspended)}

(* C26: every temporary upload file that exists belongs to a handler that has  *)
(* not finished: when an image or audio search handler has finished, its       *)
(* temporary file is deleted, whether the extraction and the search worked or  *)
(* failed and also when reading or writing the upload failed.                  *)
C26_TempFileDeleted == tmp_files \subseteq PendingTmpFiles

\* an upload handler has answered 500 and its temporary file is still on disk
C26_Witness ==
    /\ resp.kind \in {"image", "audio"}
    /\ resp.status = 500
    /\ resp.cause = "exception"
    /\ suspended = << >>
    /\ tmp_files # {}

---------------------------------------------------------------------------
(* C28: not-found and failed scrolls in get_bird_info of main_1.py *)

Main1Answered == resp.kind = "bird_1"

\* the collection holds a record of the bird asked for
HoldsBird(collection_name) ==
    \E i \in 1..Len(store[ModalityOf(collection_name)]) :
        GetId(store[ModalityOf(collection_name)][i]) = query.bird_id

SomeScrollFailed == \E c \in CollectionNames : ~query.up[c]

(* C28: get_bird_info of main_1.py answers 404 only when the three scrolls      *)
(* worked and no collection holds a record of the bird; when a scroll failed,   *)
(* the answer is a success response whose modalities carry an error entry      *)
(* under the name of each collection whose scroll failed.                      *)
C28_NotFoundOnlyWhenAllScrollsWork ==
    Main1Answered =>
        /\ resp.status = 404 =>
              /\ ~SomeScrollFailed
              /\ \A c \in CollectionNames : ~HoldsBird(c)
        /\ SomeScrollFailed =>
              /\ resp.status = 200
              /\ \A c \in CollectionNames :
                    ~query.up[c] =>
                        /\ DictHas(resp.body.modalities, c)
                        /\ DictGet(resp.body.modalities, c, PyList(<< >>)) = ErrorDict

\* one scroll failed, no collection holds the bird, and the answer is a success
C28_Witness ==
    /\ Main1Answered
    /\ ~query.up["bird_image_search"]
    /\ query.up["bird_audio_search"] /\ query.up["bird_text_search"]
    /\ \A c \in CollectionNames : ~HoldsBird(c)
    /\ resp.status = 200
    /\ DictGet(resp.body.modalities, "bird_image_search", PyList(<< >>)) = ErrorDict
    /\ DictGet(resp.body.modalities, "audio", ErrorDict) = PyList(<< >>)

\* the three scrolls worked, no collection holds the bird: 404
C28_WitnessNotFound ==
    /\ Main1Answered
    /\ ~SomeScrollFailed
    /\ resp.status = 404

---------------------------------------------------------------------------
(* C29: get_image_info makes one request *)

InfoReturned == scrape.phase = "info"

\* the answers the web has for the title asked for
AskedResponses == scrape.search_results[scrape.asked].responses

(* C29: a call of get_image_info makes at most one HTTP request (here exactly  *)
(* one, after the back-off of the first attempt, 2 seconds): it returns the    *)
(* image info when the first response carries imageinfo and None when the      *)
(* first request fails or carries none, whatever a second or third request     *)
(* would have brought.                                                         *)
C29_OneRequestPerCall ==
    InfoReturned =>
        /\ scrape.requests <= 1
        /\ scrape.slept = 2
        /\ IF AskedResponses[1].kind = "info"
           THEN /\ scrape.value # None
                /\ scrape.value.title = scrape.asked
                /\ scrape.value.width = AskedResponses[1].width
                /\ scrape.value.height = AskedResponses[1].height
                /\ scrape.value.size = AskedResponses[1].size
                /\ scrape.value.url = AskedResponses[1].url
           ELSE scrape.value = None

\* the first request failed, the second would have brought the info: None, one request
C29_Witness ==
    /\ InfoReturned
    /\ AskedResponses[1].kind = "fail"
    /\ AskedResponses[2].kind = "info"
    /\ scrape.value = None
    /\ scrape.requests = 1

---------------------------------------------------------------------------
(* C25: what collect_species_images downloads and returns *)

Collected == scrape.phase = "collected"

\* the titles of the first ten search results
FirstTitles ==
    {scrape.search_results[i].title :
        i \in 1..Min(RESULTS_EVALUATED, Len(scrape.search_results))}

\* the number of entries of the returned list that came from a call
ReturnedOf(call) ==
    Cardinality({k \in 1..Len(scrape.downloaded) :
                    scrape.downloaded[k].source_title = call.info.title})

(* C25: collect_species_images calls download_image only for candidates of a   *)
(* quality score above 2 that come from the first 10 search results, in the    *)
(* order of falling (not rising) quality score, and for at most max_images of  *)
(* them; the list it returns has at most max_images entries, one for each      *)
(* download that worked and none for one that did not.                         *)
C25_DownloadsBestOfFirstTen ==
    Collected =>
        /\ \A c \in 1..Len(scrape.calls) :
              /\ scrape.calls[c].quality_score > 2
              /\ scrape.calls[c].quality_score
                    = evaluate_image_quality(scrape.calls[c].info)
              /\ scrape.calls[c].info.title \in FirstTitles
        /\ \A c, d \in 1..Len(scrape.calls) :
              c < d => scrape.calls[c].quality_score >= scrape.calls[d].quality_score
        /\ Len(scrape.calls) <= scrape.max_images
        /\ Len(scrape.downloaded) <= scrape.max_images
        /\ \A c \in 1..Len(scrape.calls) :
              ReturnedOf(scrape.calls[c])
                = IF /\ scrape.calls[c].info.url # NO_URL
                     /\ WebOf(scrape.search_results, scrape.calls[c].info.title).download_ok
                  THEN 1
                  ELSE 0
        /\ \A k \in 1..Len(scrape.downloaded) :
              \E c \in 1..Len(scrape.calls) :
                  /\ scrape.downloaded[k].source_title = scrape.calls[c].info.title
                  /\ scrape.downloaded[k].quality_score = scrape.calls[c].quality_score
                  /\ scrape.downloaded[k].image_number = c

(* eleven search results, the eleventh the best of all and left out; the two   *)
(* best of the first ten asked for, the first of them failing to download      *)
C25_Witness ==
    /\ Collected
    /\ Len(scrape.search_results) = 11
    /\ evaluate_image_quality(get_image_info(scrape.search_results[11]).value) = 6
    /\ scrape.max_images = 2
    /\ Len(scrape.calls) = 2
    /\ scrape.calls[1].quality_score = 6
    /\ scrape.calls[1].info.title = 10
    /\ scrape.calls[2].quality_score = 3
    /\ Len(scrape.downloaded) = 1
    /\ scrape.downloaded[1].image_number = 2

===========================================================================
